---- MODULE Spec2Model ----
(***************************************************************************)
(* Model of ceph_iscsi_config/utils.py: ListComparison, the address        *)
(* normalisers normalize_ip_address / normalize_ip_literal,                *)
(* resolve_ip_addresses and valid_ip.                                      *)
(*                                                                         *)
(* Python strings are sequences of one-character strings.  Each component  *)
(* has its own specification (SpecList, SpecAddr, SpecResolve, SpecProbe); *)
(* the variables of the other components stay at their idle values.        *)
(***************************************************************************)
EXTENDS Integers, Sequences, FiniteSets, TLC

VARIABLES
    \* ---- ListComparison object (utils.py 416-452)
    current,        \* self.current
    new,            \* self.new
    changed,        \* self.changed
    added_ret,      \* value returned by the last read of `added`
    removed_ret,    \* value returned by the last read of `removed`
    lastOp,         \* "none" | "added" | "removed": the last property read
    addedRead,      \* history: `added` has been read at least once
    removedRead,    \* history: `removed` has been read at least once
    addedHit,       \* history: some read of `added` found new - current non-empty
    removedHit,     \* history: some read of `removed` found current - new non-empty
    \* ---- repeated normalize_ip_literal (utils.py 45-69)
    given,          \* the string first passed to normalize_ip_literal
    lits,           \* lits[n]: the result of the n-th successive application
    \* ---- one call of resolve_ip_addresses (utils.py 100-125)
    addr,           \* the argument
    normalized_addr,
    r_pc,           \* "call" | "pton" | "dns" | "ret" | "done" | "raised"
    r_fi,           \* index into families of the running loop
    addrs,          \* the set being filled by the lookups
    r_ret,          \* the list returned
    r_log,          \* the inet_pton / getaddrinfo calls made so far, in order
    \* ---- one call of valid_ip (utils.py 128-162) and its environment
    ip,             \* the argument: a str, a list of str, or something else
    reach,          \* environment: what connect((addr, port)) does per family
    refcounting,    \* environment: the runtime finalises a socket object as
                    \* soon as its last reference goes (CPython), or does not
    ip_list,
    ip_ok,
    addr_ok,
    v_ai,           \* position of `addr` in ip_list
    v_fi,           \* position of `family` in families
    v_pc,           \* "call" | "addr_loop" | "family_loop" | "after" |
                    \* "return" | "done" | "raised"
    socks,          \* every socket object the call has created
    sock,           \* index in socks of the object bound to `sock`, or 0
    v_ret,          \* the value returned
    v_log           \* the connect attempts made so far, in order

listVars == <<current, new, changed, added_ret, removed_ret, lastOp,
              addedRead, removedRead, addedHit, removedHit>>

addrVars == <<given, lits>>

resolveVars == <<addr, normalized_addr, r_pc, r_fi, addrs, r_ret, r_log>>

probeVars == <<ip, reach, refcounting, ip_list, ip_ok, addr_ok, v_ai, v_fi, v_pc,
               socks, sock, v_ret, v_log>>

vars == <<listVars, addrVars, resolveVars, probeVars>>

-----------------------------------------------------------------------------
(* Bounds *)

MaxLen == 3         \* longest current / new list
MaxElem == 3        \* list items are 1..MaxElem
MaxStrLen == 5      \* longest string enumerated over Chars
MaxWrap == 3        \* most bracket pairs put around a known address
MaxApply == 2       \* successive applications of normalize_ip_literal
MaxHostLen == 2     \* longest arbitrary string passed to resolve_ip_addresses
MaxInfos == 2       \* most entries one getaddrinfo call returns
MaxList == 3        \* longest list passed to valid_ip

-----------------------------------------------------------------------------
(* Generic helpers *)

ToSet(s) == {s[i] : i \in 1..Len(s)}

SeqsUpTo(S, n) == UNION {[1..k -> S] : k \in 0..n}

\* every ordering of the finite set S, as sequences
Perms(S) == {p \in [1..Cardinality(S) -> S] : ToSet(p) = S}

Count(s, e) == Cardinality({i \in 1..Len(s) : s[i] = e})

NoRepeats(s) == \A i, j \in 1..Len(s) : s[i] = s[j] => i = j

-----------------------------------------------------------------------------
(* Strings and address parsing *)

\* the characters strings are enumerated over; "\n" is there because the
\* regular expression of normalize_ip_address treats it specially
Chars == {"[", "]", ":", "1", "\n"}

Digits == {"0", "1", "2", "3", "4", "5", "6", "7", "8", "9"}

HexDigits == Digits \cup {"a", "b", "c", "d", "e", "f", "A", "B", "C", "D", "E", "F"}

DigitVal(c) ==
    CASE c = "0" -> 0 [] c = "1" -> 1 [] c = "2" -> 2 [] c = "3" -> 3
      [] c = "4" -> 4 [] c = "5" -> 5 [] c = "6" -> 6 [] c = "7" -> 7
      [] c = "8" -> 8 [] c = "9" -> 9

\* the fields of s between occurrences of the character sep
RECURSIVE Split(_, _)
Split(s, sep) ==
    IF \A i \in 1..Len(s) : s[i] # sep THEN <<s>>
    ELSE LET k == CHOOSE i \in 1..Len(s) : s[i] = sep /\ \A j \in 1..(i-1) : s[j] # sep
         IN <<SubSeq(s, 1, k-1)>> \o Split(SubSeq(s, k+1, Len(s)), sep)

RECURSIVE DecVal(_)
DecVal(f) == IF f = <<>> THEN 0 ELSE 10 * DecVal(SubSeq(f, 1, Len(f)-1)) + DigitVal(f[Len(f)])

\* one part of a dotted quad: 1-3 digits, at most 255, no leading zero
IsOctet(f) ==
    /\ Len(f) \in 1..3
    /\ \A i \in 1..Len(f) : f[i] \in Digits
    /\ (Len(f) > 1 => f[1] # "0")
    /\ DecVal(f) <= 255

\* socket.inet_pton(socket.AF_INET, s) succeeds
IsIPv4(s) ==
    LET parts == Split(s, ".") IN
    /\ Len(parts) = 4
    /\ \A i \in 1..4 : IsOctet(parts[i])

IsHexGroup(f) == Len(f) \in 1..4 /\ \A i \in 1..Len(f) : f[i] \in HexDigits

\* number of 16-bit groups in a ":"-separated run of hex groups, whose last
\* field may be a dotted quad (two groups) when allowV4; -1 when malformed
GroupCount(s, allowV4) ==
    IF s = <<>> THEN 0
    ELSE LET fields == Split(s, ":")
             n == Len(fields)
             lastV4 == allowV4 /\ IsIPv4(fields[n])
         IN IF /\ \A i \in 1..(n-1) : IsHexGroup(fields[i])
               /\ (IsHexGroup(fields[n]) \/ lastV4)
            THEN IF lastV4 THEN n + 1 ELSE n
            ELSE -1

\* socket.inet_pton(socket.AF_INET6, s) succeeds: eight groups, or fewer
\* around a single "::"
IsIPv6(s) ==
    \/ GroupCount(s, TRUE) = 8
    \/ \E k \in 1..(Len(s)-1) :
          /\ s[k] = ":" /\ s[k+1] = ":"
          /\ LET ca == GroupCount(SubSeq(s, 1, k-1), FALSE)
                 cb == GroupCount(SubSeq(s, k+2, Len(s)), TRUE)
             IN ca >= 0 /\ cb >= 0 /\ ca + cb <= 7

\* where "$" can match when the pattern's final "\]" ends at e: at the end
\* of the string or just before a newline that ends the string
DollarAfter(s, e) == e = Len(s) \/ (e = Len(s) - 1 /\ s[Len(s)] = "\n")

\* the end of the match of ^\[(.*)\]$ on s, or 0 when s does not match;
\* "." matches anything but a newline
BracketEnd(s) ==
    LET ends == {e \in 2..Len(s) :
                    /\ s[1] = "["
                    /\ s[e] = "]"
                    /\ DollarAfter(s, e)
                    /\ \A i \in 2..(e-1) : s[i] # "\n"}
    IN IF ends = {} THEN 0 ELSE CHOOSE e \in ends : TRUE

\* normalize_ip_address(ip_address)
normalize_ip_address(ip_address) ==
    LET e == BracketEnd(ip_address) IN
    IF e # 0 THEN SubSeq(ip_address, 2, e-1) ELSE ip_address

\* mutant: the brackets are put around the argument as it was passed in
normalize_ip_literal_raw(ip_address) ==
    IF IsIPv6(normalize_ip_address(ip_address))
    THEN <<"[">> \o ip_address \o <<"]">>
    ELSE normalize_ip_address(ip_address)

\* normalize_ip_literal(ip_address)
normalize_ip_literal(ip_address) ==
    LET bare == normalize_ip_address(ip_address) IN
    IF IsIPv6(bare) THEN <<"[">> \o bare \o <<"]">> ELSE bare

RECURSIVE Wrap(_, _)
Wrap(k, s) == IF k = 0 THEN s ELSE <<"[">> \o Wrap(k-1, s) \o <<"]">>

V4Addr == <<"1", "0", ".", "0", ".", "0", ".", "1">>
V6Loop == <<":", ":", "1">>
V6Full == <<"1", ":", "2", ":", "3", ":", "4", ":", "5", ":", "6", ":", "7", ":", "8">>
V6Map4 == <<":", ":", "f", "f", "f", "f", ":", "1", "0", ".", "0", ".", "0", ".", "1">>
HostName == <<"g", "w", "1">>

KnownAddrs == {V4Addr, V6Loop, V6Full, V6Map4, HostName}

AddrInputs ==
    SeqsUpTo(Chars, MaxStrLen) \cup {Wrap(k, a) : k \in 0..MaxWrap, a \in KnownAddrs}

AddrInit ==
    /\ given \in AddrInputs
    /\ lits = <<>>
    \* the other components are idle
    /\ current = <<>>
    /\ new = <<>>
    /\ changed = FALSE
    /\ added_ret = <<>>
    /\ removed_ret = <<>>
    /\ lastOp = "none"
    /\ addedRead = FALSE
    /\ removedRead = FALSE
    /\ addedHit = FALSE
    /\ removedHit = FALSE
    /\ addr = <<>>
    /\ normalized_addr = <<>>
    /\ r_pc = "idle"
    /\ r_fi = 0
    /\ addrs = {}
    /\ r_ret = <<>>
    /\ r_log = <<>>
    /\ ip = [kind |-> "other", str |-> "", list |-> <<>>]
    /\ reach = <<>>
    /\ refcounting = TRUE
    /\ ip_list = <<>>
    /\ ip_ok = TRUE
    /\ addr_ok = FALSE
    /\ v_ai = 0
    /\ v_fi = 0
    /\ v_pc = "idle"
    /\ socks = <<>>
    /\ sock = 0
    /\ v_ret = FALSE
    /\ v_log = <<>>

\* one more application: normalize_ip_literal on the given string, then on its own result
ApplyLiteral ==
    /\ Len(lits) < MaxApply
    /\ lits' = Append(lits, normalize_ip_literal(IF lits = <<>> THEN given ELSE lits[Len(lits)]))
    /\ UNCHANGED given
    /\ UNCHANGED <<listVars, resolveVars, probeVars>>

AddrNext == ApplyLiteral

SpecAddr == AddrInit /\ [][AddrNext]_vars

-----------------------------------------------------------------------------
(* Claims about normalize_ip_literal *)

\* C5 (as claimed): normalize_ip_literal is idempotent on every string.
C5_Idempotent == Len(lits) >= 2 => lits[2] = lits[1]

\* at most one pair of brackets surrounds s
AtMostOnePair(s) ==
    normalize_ip_address(normalize_ip_address(s)) = normalize_ip_address(s)

\* C5 (amended): normalize_ip_literal is idempotent on every string whose
\* bare form is not itself bracketed; on any string, applying it twice equals
\* applying it once to the bare form, so each application takes one more
\* pair off a string wrapped in several.
C5_IdempotentOnePair ==
    Len(lits) >= 2 =>
        /\ AtMostOnePair(given) => lits[2] = lits[1]
        /\ lits[2] = normalize_ip_literal(normalize_ip_address(given))

\* a bracketed IPv6 literal went through two applications
C5_Witness ==
    /\ Len(lits) >= 2
    /\ given # normalize_ip_address(given)
    /\ IsIPv6(normalize_ip_address(given))
    /\ lits[2] = given

-----------------------------------------------------------------------------
(* resolve_ip_addresses *)

\* families = [socket.AF_INET, socket.AF_INET6]
Families == <<4, 6>>

\* socket.inet_pton(family, s) returns instead of raising
PtonOk(family, s) == IF family = 4 THEN IsIPv4(s) ELSE IsIPv6(s)

V4Other == <<"1", "0", ".", "0", ".", "0", ".", "2">>

\* addresses a lookup of the family can return
DnsPool(family) == IF family = 4 THEN {V4Addr, V4Other} ELSE {V6Loop, V6Full}

\* what getaddrinfo raises: socket.gaierror for a failed lookup, UnicodeError
\* for a name that cannot be encoded
DnsErrors == {"gaierror", "UnicodeError"}

\* getaddrinfo returns at least one entry when it returns; the same address
\* can come back in several entries (one per socket type)
DnsAnswers(family) == SeqsUpTo(DnsPool(family), MaxInfos) \ {<<>>}

\* mutant: only socket.gaierror is handled
CaughtGaiOnly(exc) == exc = "gaierror"

\* except Exception: every error of a parse or a lookup is handled
Caught(exc) == TRUE

\* mutant: return [addr]
LiteralResultRaw(raw, normalized) == <<raw>>

\* return [normalized_addr]
LiteralResult(raw, normalized) == <<normalized>>

\* for info in infos: addrs.add(info[4][0])
AddInfos(set, infos) == set \cup ToSet(infos)

PtonEvent(family, ok) ==
    [op |-> "pton", family |-> family, ok |-> ok, infos |-> <<>>]

DnsEvent(family, ok, infos) ==
    [op |-> "dns", family |-> family, ok |-> ok, infos |-> infos]

ResolveInputs ==
    SeqsUpTo(Chars, MaxHostLen) \cup {Wrap(k, a) : k \in 0..2, a \in KnownAddrs}

ResolveInit ==
    /\ addr \in ResolveInputs
    /\ normalized_addr = <<>>
    /\ r_pc = "call"
    /\ r_fi = 0
    /\ addrs = {}
    /\ r_ret = <<>>
    /\ r_log = <<>>
    \* the other components are idle
    /\ current = <<>>
    /\ new = <<>>
    /\ changed = FALSE
    /\ added_ret = <<>>
    /\ removed_ret = <<>>
    /\ lastOp = "none"
    /\ addedRead = FALSE
    /\ removedRead = FALSE
    /\ addedHit = FALSE
    /\ removedHit = FALSE
    /\ given = <<>>
    /\ lits = <<>>
    /\ ip = [kind |-> "other", str |-> "", list |-> <<>>]
    /\ reach = <<>>
    /\ refcounting = TRUE
    /\ ip_list = <<>>
    /\ ip_ok = TRUE
    /\ addr_ok = FALSE
    /\ v_ai = 0
    /\ v_fi = 0
    /\ v_pc = "idle"
    /\ socks = <<>>
    /\ sock = 0
    /\ v_ret = FALSE
    /\ v_log = <<>>

\* lines 107-108
ResolveEnter ==
    /\ r_pc = "call"
    /\ normalized_addr' = normalize_ip_address(addr)
    /\ r_pc' = "pton"
    /\ r_fi' = 1
    /\ UNCHANGED <<addr, addrs, r_ret, r_log>>
    /\ UNCHANGED <<listVars, addrVars, probeVars>>

\* lines 109-114: one turn of the first loop
ResolveParse ==
    /\ r_pc = "pton"
    /\ LET family == Families[r_fi]
           ok == PtonOk(family, normalized_addr)
       IN /\ r_log' = Append(r_log, PtonEvent(family, ok))
          /\ IF ok
             THEN /\ r_ret' = LiteralResult(addr, normalized_addr)
                  /\ r_pc' = "done"
                  /\ UNCHANGED <<r_fi, addrs>>
             ELSE IF ~Caught("error")
             THEN /\ r_pc' = "raised"
                  /\ UNCHANGED <<r_fi, addrs, r_ret>>
             ELSE IF r_fi < Len(Families)
             THEN /\ r_fi' = r_fi + 1
                  /\ UNCHANGED <<r_pc, addrs, r_ret>>
             ELSE \* line 116
                  /\ addrs' = {}
                  /\ r_pc' = "dns"
                  /\ r_fi' = 1
                  /\ UNCHANGED r_ret
    /\ UNCHANGED <<addr, normalized_addr>>
    /\ UNCHANGED <<listVars, addrVars, probeVars>>

\* lines 117-123: one turn of the second loop; the lookup is made on addr
ResolveLookup ==
    /\ r_pc = "dns"
    /\ LET family == Families[r_fi]
           next_pc == IF r_fi < Len(Families) THEN "dns" ELSE "ret"
       IN \/ \E infos \in DnsAnswers(family) :
                /\ r_log' = Append(r_log, DnsEvent(family, TRUE, infos))
                /\ addrs' = AddInfos(addrs, infos)
                /\ r_pc' = next_pc
                /\ r_fi' = r_fi + 1
          \/ \E exc \in DnsErrors :
                /\ r_log' = Append(r_log, DnsEvent(family, FALSE, <<>>))
                /\ IF Caught(exc)
                   THEN r_pc' = next_pc /\ r_fi' = r_fi + 1
                   ELSE r_pc' = "raised" /\ r_fi' = r_fi
                /\ UNCHANGED addrs
    /\ UNCHANGED <<addr, normalized_addr, r_ret>>
    /\ UNCHANGED <<listVars, addrVars, probeVars>>

\* line 125: list(addrs), in the set's iteration order
ResolveReturn ==
    /\ r_pc = "ret"
    /\ r_ret' \in Perms(addrs)
    /\ r_pc' = "done"
    /\ UNCHANGED <<addr, normalized_addr, r_fi, addrs, r_log>>
    /\ UNCHANGED <<listVars, addrVars, probeVars>>

ResolveNext == ResolveEnter \/ ResolveParse \/ ResolveLookup \/ ResolveReturn

SpecResolve == ResolveInit /\ [][ResolveNext]_vars

-----------------------------------------------------------------------------
(* Claims about resolve_ip_addresses *)

\* the argument is an IP literal once one surrounding bracket pair is off
IsLiteralArg(a) == IsIPv4(normalize_ip_address(a)) \/ IsIPv6(normalize_ip_address(a))

Events(op) == {i \in 1..Len(r_log) : r_log[i].op = op}

\* the addresses the lookups made so far have returned
Looked == UNION {ToSet(r_log[i].infos) : i \in Events("dns")}

\* C9: on an argument that is not an IP literal the call never raises; it
\* returns the duplicate-free union of what the IPv4 and the IPv6 lookup
\* returned; a failed lookup adds nothing and the other family is still
\* looked up; the result is empty only if both lookups failed.
C9_ResolveNeverRaises ==
    ~IsLiteralArg(addr) =>
        /\ r_pc # "raised"
        /\ r_pc \in {"ret", "done"} =>
              /\ Len(r_log) = 4
              /\ r_log[3].op = "dns" /\ r_log[3].family = 4
              /\ r_log[4].op = "dns" /\ r_log[4].family = 6
              /\ addrs = Looked
        /\ r_pc = "done" =>
              /\ ToSet(r_ret) = Looked
              /\ NoRepeats(r_ret)
              /\ (r_ret = <<>> => \A i \in Events("dns") : ~r_log[i].ok)

\* the IPv4 lookup failed, the IPv6 lookup returned one address twice, and
\* the call returned just that address
C9_Witness ==
    /\ r_pc = "done"
    /\ ~IsLiteralArg(addr)
    /\ Len(r_log) = 4
    /\ ~r_log[3].ok
    /\ r_log[4].ok /\ Len(r_log[4].infos) = 2 /\ ~NoRepeats(r_log[4].infos)
    /\ Len(r_ret) = 1

\* C10: on an argument that is an IPv4 or IPv6 literal once one surrounding
\* bracket pair is off, the call makes no DNS lookup and returns exactly one
\* element, the bare literal; the IPv4 parse comes before the IPv6 parse.
C10_LiteralShortCircuit ==
    IsLiteralArg(addr) =>
        /\ Events("dns") = {}
        /\ r_pc \notin {"dns", "ret", "raised"}
        /\ \A i \in 1..Len(r_log) : r_log[i].family = 6 =>
              /\ i = 2
              /\ r_log[1].family = 4
              /\ ~r_log[1].ok
        /\ (r_log # <<>>) => r_log[1].family = 4
        /\ r_pc = "done" =>
              /\ r_ret = <<normalize_ip_address(addr)>>
              /\ BracketEnd(r_ret[1]) = 0
              /\ r_log[Len(r_log)].ok

\* a bracketed IPv6 literal was resolved: IPv4 parse, IPv6 parse, return
C10_Witness ==
    /\ r_pc = "done"
    /\ addr # normalize_ip_address(addr)
    /\ IsIPv6(normalize_ip_address(addr))
    /\ Len(r_log) = 2
    /\ r_ret = <<normalize_ip_address(addr)>>

-----------------------------------------------------------------------------
(* valid_ip *)

\* mutant: only IPv4 is tried
ProbeFamiliesV4Only == <<4>>

\* families = [socket.AF_INET, socket.AF_INET6]
ProbeFamilies == <<4, 6>>

ProbeHosts == {"gw1", "gw2"}

\* connect either returns or raises socket.error, socket.timeout or
\* socket.gaierror
ConnectErrors == {"error", "timeout", "gaierror"}

ConnectOutcomes == {"ok"} \cup ConnectErrors

\* except socket.error: timeout and gaierror are subclasses of it
ConnectCaught(exc) == exc \in {"error", "timeout", "gaierror"}

\* mutant: the loop goes on to the next address after a failure
AfterFamiliesNoBreak(ok) == "addr_loop"

\* lines 159-161: break out of the address loop when the address failed
AfterFamilies(ok) == IF ~ok THEN "return" ELSE "addr_loop"

\* lines 159-160: if not addr_ok: ip_ok = False
IpOk(ok_so_far, ok) == IF ~ok THEN FALSE ELSE ok_so_far

\* sock.close()
Closed(ss, i) == [ss EXCEPT ![i].state = "closed"]

\* the last reference to socket object i goes away without close() having
\* been called by the code: the object is finalised, and its descriptor
\* closed, at once only by a reference-counting runtime
Dropped(ss, i) ==
    IF i # 0 /\ ss[i].state = "open" /\ refcounting THEN Closed(ss, i) ELSE ss

ProbeInputs ==
    {[kind |-> "str", str |-> h, list |-> <<>>] : h \in ProbeHosts}
    \cup {[kind |-> "list", str |-> "", list |-> l] : l \in SeqsUpTo(ProbeHosts, MaxList)}
    \cup {[kind |-> "other", str |-> "", list |-> <<>>]}

ProbeInit ==
    /\ ip \in ProbeInputs
    /\ reach \in [ProbeHosts \X {4, 6} -> ConnectOutcomes]
    /\ refcounting \in BOOLEAN
    /\ ip_list = <<>>
    /\ ip_ok = TRUE
    /\ addr_ok = FALSE
    /\ v_ai = 0
    /\ v_fi = 0
    /\ v_pc = "call"
    /\ socks = <<>>
    /\ sock = 0
    /\ v_ret = FALSE
    /\ v_log = <<>>
    \* the other components are idle
    /\ current = <<>>
    /\ new = <<>>
    /\ changed = FALSE
    /\ added_ret = <<>>
    /\ removed_ret = <<>>
    /\ lastOp = "none"
    /\ addedRead = FALSE
    /\ removedRead = FALSE
    /\ addedHit = FALSE
    /\ removedHit = FALSE
    /\ given = <<>>
    /\ lits = <<>>
    /\ addr = <<>>
    /\ normalized_addr = <<>>
    /\ r_pc = "idle"
    /\ r_fi = 0
    /\ addrs = {}
    /\ r_ret = <<>>
    /\ r_log = <<>>

\* lines 135-138, 142-144
VI_Enter ==
    /\ v_pc = "call"
    /\ ip.kind \in {"str", "list"}
    /\ ip_list' = IF ip.kind = "str" THEN <<ip.str>> ELSE ip.list
    /\ ip_ok' = TRUE
    /\ v_ai' = 1
    /\ v_pc' = "addr_loop"
    /\ UNCHANGED <<ip, reach, refcounting, addr_ok, v_fi, socks, sock, v_ret, v_log>>
    /\ UNCHANGED <<listVars, addrVars, resolveVars>>

\* lines 139-140: neither a str nor a list
VI_Reject ==
    /\ v_pc = "call"
    /\ ip.kind \notin {"str", "list"}
    /\ v_ret' = FALSE
    /\ v_pc' = "done"
    /\ UNCHANGED <<ip, reach, refcounting, ip_list, ip_ok, addr_ok, v_ai, v_fi,
                   socks, sock, v_log>>
    /\ UNCHANGED <<listVars, addrVars, resolveVars>>

\* lines 145-146: the next addr of ip_list, or the end of the loop
VI_NextAddr ==
    /\ v_pc = "addr_loop"
    /\ IF v_ai <= Len(ip_list)
       THEN /\ addr_ok' = FALSE
            /\ v_fi' = 1
            /\ v_pc' = "family_loop"
       ELSE /\ v_pc' = "return"
            /\ UNCHANGED <<addr_ok, v_fi>>
    /\ UNCHANGED <<ip, reach, refcounting, ip_list, ip_ok, v_ai, socks, sock, v_ret, v_log>>
    /\ UNCHANGED <<listVars, addrVars, resolveVars>>

\* lines 147-157: one turn of the family loop: a new socket is bound to
\* `sock` (the object bound before loses its reference) and connected.
\* socket.socket() and settimeout() are taken to succeed; only connect fails.
VI_Connect ==
    /\ v_pc = "family_loop"
    /\ LET family == ProbeFamilies[v_fi]
           host == ip_list[v_ai]
           out == reach[<<host, family>>]
           opened == Append(Dropped(socks, sock), [family |-> family, state |-> "open"])
           n == Len(opened)
       IN /\ sock' = n
          /\ v_log' = Append(v_log, [idx |-> v_ai, host |-> host, family |-> family,
                                     ok |-> (out = "ok")])
          /\ IF out = "ok"
             THEN /\ socks' = Closed(opened, n)
                  /\ addr_ok' = TRUE
                  /\ v_pc' = "after"
                  /\ UNCHANGED v_fi
             ELSE /\ socks' = opened
                  /\ UNCHANGED addr_ok
                  /\ IF ~ConnectCaught(out) THEN v_pc' = "raised" /\ UNCHANGED v_fi
                     ELSE IF v_fi < Len(ProbeFamilies) THEN v_fi' = v_fi + 1 /\ UNCHANGED v_pc
                     ELSE v_pc' = "after" /\ UNCHANGED v_fi
    /\ UNCHANGED <<ip, reach, refcounting, ip_list, ip_ok, v_ai, v_ret>>
    /\ UNCHANGED <<listVars, addrVars, resolveVars>>

\* lines 159-161
VI_AfterFamilies ==
    /\ v_pc = "after"
    /\ ip_ok' = IpOk(ip_ok, addr_ok)
    /\ v_pc' = AfterFamilies(addr_ok)
    /\ v_ai' = v_ai + 1
    /\ UNCHANGED <<ip, reach, refcounting, ip_list, addr_ok, v_fi, socks, sock, v_ret, v_log>>
    /\ UNCHANGED <<listVars, addrVars, resolveVars>>

\* line 162: the frame goes, and with it the reference held by `sock`
VI_Return ==
    /\ v_pc = "return"
    /\ v_ret' = ip_ok
    /\ socks' = Dropped(socks, sock)
    /\ sock' = 0
    /\ v_pc' = "done"
    /\ UNCHANGED <<ip, reach, refcounting, ip_list, ip_ok, addr_ok, v_ai, v_fi, v_log>>
    /\ UNCHANGED <<listVars, addrVars, resolveVars>>

ProbeNext ==
    VI_Enter \/ VI_Reject \/ VI_NextAddr \/ VI_Connect \/ VI_AfterFamilies \/ VI_Return

SpecProbe == ProbeInit /\ [][ProbeNext]_vars

-----------------------------------------------------------------------------
(* Claims about valid_ip *)

\* the argument as a list: a str stands for the list holding just it
ArgList == IF ip.kind = "str" THEN <<ip.str>> ELSE ip.list

Accepts(host) == \E family \in {4, 6} : reach[<<host, family>>] = "ok"

\* C6: called with a list, valid_ip returns true exactly when every address
\* of the list accepts a connection through IPv4 or IPv6; a single string
\* is handled as the one-element list holding it.
C6_TrueIffAllReachable ==
    (v_pc = "done" /\ ip.kind \in {"str", "list"}) =>
        /\ v_ret <=> \A i \in 1..Len(ArgList) : Accepts(ArgList[i])
        /\ ip_list = ArgList

\* a list of two different addresses returned true, one of them reachable
\* through IPv6 only
C6_Witness ==
    /\ v_pc = "done"
    /\ ip.kind = "list"
    /\ Len(ip.list) >= 2
    /\ ip.list[1] # ip.list[2]
    /\ v_ret
    /\ \E i \in 1..Len(ip.list) : reach[<<ip.list[i], 4>>] # "ok"

FailedBoth(i) ==
    \E j \in 1..(Len(v_log) - 1) :
        /\ v_log[j].idx = i /\ v_log[j].family = 4 /\ ~v_log[j].ok
        /\ v_log[j+1].idx = i /\ v_log[j+1].family = 6 /\ ~v_log[j+1].ok

\* C7: the connect attempts of one call come in list order; for each address
\* IPv4 is tried first and IPv6 only after IPv4 failed; once an address has
\* failed on both families nothing more is tried and the call returns false.
C7_ProbeOrder ==
    /\ \A j \in 1..Len(v_log) :
          /\ v_log[j].idx \in 1..Len(ArgList)
          /\ v_log[j].host = ArgList[v_log[j].idx]
    /\ (v_log # <<>>) => (v_log[1].idx = 1 /\ v_log[1].family = 4)
    /\ \A j \in 1..(Len(v_log) - 1) :
          \/ /\ v_log[j+1].idx = v_log[j].idx
             /\ v_log[j].family = 4 /\ ~v_log[j].ok
             /\ v_log[j+1].family = 6
          \/ /\ v_log[j+1].idx = v_log[j].idx + 1
             /\ v_log[j].ok
             /\ v_log[j+1].family = 4
    /\ \A i \in 1..Len(ArgList) :
          FailedBoth(i) =>
             /\ v_log[Len(v_log)].idx = i
             /\ v_pc = "done" => ~v_ret

\* the first address connected through IPv6 after IPv4 failed, the second
\* failed on both, the third was never tried, and the call returned false
C7_Witness ==
    /\ v_pc = "done"
    /\ Len(ArgList) = 3
    /\ Len(v_log) = 4
    /\ v_log[2].idx = 1 /\ v_log[2].family = 6 /\ v_log[2].ok
    /\ FailedBoth(2)
    /\ ~v_ret

\* C8 (as claimed): when the call has returned every socket it opened is
\* closed, whether its connect succeeded or failed.
C8_AllSocketsClosed ==
    v_pc = "done" => \A i \in 1..Len(socks) : socks[i].state = "closed"

-----------------------------------------------------------------------------
(* ListComparison *)

Items == 1..MaxElem

\* additions = set(self.new) - set(self.current)
Additions(cur, nw) == ToSet(nw) \ ToSet(cur)

\* removals = set(self.current) - set(self.new)
Removals(cur, nw) == ToSet(cur) \ ToSet(nw)

\* mutant: the flag is assigned the test instead of being raised by it
AddedFlagAssigned(chg, additions) == Cardinality(additions) > 0

\* if len(additions) > 0: self.changed = True
AddedFlag(chg, additions) == IF Cardinality(additions) > 0 THEN TRUE ELSE chg

\* mutant: `removed` forgets to raise the flag
RemovedFlagNever(chg, removals) == chg

\* if len(removals) > 0: self.changed = True
RemovedFlag(chg, removals) == IF Cardinality(removals) > 0 THEN TRUE ELSE chg

\* ascending enumeration of a set of integers (one possible set-iteration order)
RECURSIVE Ascending(_)
Ascending(S) ==
    IF S = {} THEN <<>>
    ELSE LET m == CHOOSE x \in S : \A y \in S : x <= y
         IN <<m>> \o Ascending(S \ {m})

\* mutant: return list(additions), i.e. the set's own iteration order
AddedListSetOrder(nw, additions) == Ascending(additions)

\* mutant: keep only the first occurrence of each added item
AddedListFirstOnly(nw, additions) ==
    SelectSeq([i \in 1..Len(nw) |->
                  IF nw[i] \in additions /\ \A j \in 1..(i-1) : nw[j] # nw[i]
                  THEN nw[i] ELSE 0],
              LAMBDA item : item # 0)

\* return [item for item in self.new if item in additions]
AddedList(nw, additions) == SelectSeq(nw, LAMBDA item : item \in additions)

\* return list(removals): a list of the set's members in the set's iteration
\* order, which Python leaves unspecified; every ordering is possible
RemovedLists(removals) == Perms(removals)

\* ListComparison.__init__(current_list, new_list)
ListInit ==
    /\ current \in SeqsUpTo(Items, MaxLen)
    /\ new \in SeqsUpTo(Items, MaxLen)
    /\ changed = FALSE
    /\ added_ret = <<>>
    /\ removed_ret = <<>>
    /\ lastOp = "none"
    /\ addedRead = FALSE
    /\ removedRead = FALSE
    /\ addedHit = FALSE
    /\ removedHit = FALSE
    \* the other components are idle
    /\ given = <<>>
    /\ lits = <<>>
    /\ addr = <<>>
    /\ normalized_addr = <<>>
    /\ r_pc = "idle"
    /\ r_fi = 0
    /\ addrs = {}
    /\ r_ret = <<>>
    /\ r_log = <<>>
    /\ ip = [kind |-> "other", str |-> "", list |-> <<>>]
    /\ reach = <<>>
    /\ refcounting = TRUE
    /\ ip_list = <<>>
    /\ ip_ok = TRUE
    /\ addr_ok = FALSE
    /\ v_ai = 0
    /\ v_fi = 0
    /\ v_pc = "idle"
    /\ socks = <<>>
    /\ sock = 0
    /\ v_ret = FALSE
    /\ v_log = <<>>

\* a read of the property `added`
ReadAdded ==
    LET additions == Additions(current, new) IN
    /\ changed' = AddedFlag(changed, additions)
    /\ added_ret' = AddedList(new, additions)
    /\ lastOp' = "added"
    /\ addedRead' = TRUE
    /\ addedHit' = (addedHit \/ additions # {})
    /\ UNCHANGED <<current, new, removed_ret, removedRead, removedHit>>
    /\ UNCHANGED <<addrVars, resolveVars, probeVars>>

\* a read of the property `removed`
ReadRemoved ==
    LET removals == Removals(current, new) IN
    /\ changed' = RemovedFlag(changed, removals)
    /\ removed_ret' \in RemovedLists(removals)
    /\ lastOp' = "removed"
    /\ removedRead' = TRUE
    /\ removedHit' = (removedHit \/ removals # {})
    /\ UNCHANGED <<current, new, added_ret, addedRead, addedHit>>
    /\ UNCHANGED <<addrVars, resolveVars, probeVars>>

ListNext == ReadAdded \/ ReadRemoved

SpecList == ListInit /\ [][ListNext]_vars

-----------------------------------------------------------------------------
(* Claims about ListComparison *)

\* C1: the `changed` flag is monotonic: once true it is true in every later
\* state; no read of `added` or `removed` sets it back to false.
C1_ChangedMonotonic == [][changed => changed']_vars

\* a read of `added` that found nothing new happened while the flag was
\* already raised by `removed`, and the flag is still up
C1_Witness ==
    /\ changed
    /\ lastOp = "added"
    /\ Additions(current, new) = {}
    /\ removedHit

\* C2: `changed` is true exactly when some earlier read of `added` found
\* new - current non-empty or some earlier read of `removed` found
\* current - new non-empty (so it is false right after construction); once
\* both properties have been read, `changed` is true exactly when the
\* element sets of current and new differ.
C2_ChangedIffHit ==
    /\ changed <=> (addedHit \/ removedHit)
    /\ (lastOp = "none") => ~changed
    /\ (addedRead /\ removedRead) => (changed <=> ToSet(current) # ToSet(new))

\* both properties read, the lists differ only by a removal, the flag is up
C2_Witness ==
    /\ addedRead /\ removedRead
    /\ changed
    /\ ~addedHit
    /\ removedHit

\* the elements of nw that are not members of cur, in nw's order
RECURSIVE NotMembers(_, _)
NotMembers(nw, cur) ==
    IF nw = <<>> THEN <<>>
    ELSE (IF \E i \in 1..Len(cur) : cur[i] = Head(nw) THEN <<>> ELSE <<Head(nw)>>)
         \o NotMembers(Tail(nw), cur)

\* C3: `added` returns exactly the elements of new that are not members of
\* current, in the relative order in which they occur in new; with current
\* empty and new without repeats, `added` equals new.
C3_AddedInNewOrder ==
    addedRead =>
        /\ added_ret = NotMembers(new, current)
        /\ (current = <<>> /\ NoRepeats(new)) => added_ret = new

\* `added` returned two items in an order that is not ascending
C3_Witness ==
    /\ addedRead
    /\ Len(added_ret) >= 2
    /\ added_ret[1] > added_ret[2]
    /\ current # <<>>

\* C4 (as claimed): each element of new - current appears exactly once in
\* `added` and each element of current - new exactly once in `removed`,
\* however often it is repeated in the inputs.
C4_ExactlyOnce ==
    /\ addedRead =>
          /\ ToSet(added_ret) = Additions(current, new)
          /\ \A e \in Additions(current, new) : Count(added_ret, e) = 1
    /\ removedRead =>
          /\ ToSet(removed_ret) = Removals(current, new)
          /\ \A e \in Removals(current, new) : Count(removed_ret, e) = 1

\* C4 (amended): repeats in current never matter and `removed` lists each
\* element of current - new exactly once, but `added` lists each element of
\* new - current as many times as it occurs in new.
C4_SetSemantics ==
    /\ addedRead =>
          /\ ToSet(added_ret) = Additions(current, new)
          /\ \A e \in Additions(current, new) : Count(added_ret, e) = Count(new, e)
    /\ removedRead =>
          /\ ToSet(removed_ret) = Removals(current, new)
          /\ \A e \in Removals(current, new) : Count(removed_ret, e) = 1

\* both read; an added item is repeated in new and a removed one in current
C4_Witness ==
    /\ addedRead /\ removedRead
    /\ \E e \in Additions(current, new) : Count(new, e) >= 2 /\ Count(added_ret, e) >= 2
    /\ \E e \in Removals(current, new) : Count(current, e) >= 2

====
